---------------------------- MODULE Spec2Model ----------------------------
(***************************************************************************)
(* Model of src/src/index.ts: the capture orchestrator of html2canvas with *)
(* the segmented capture (html2canvasSegmented), the single-shot capture   *)
(* (html2canvas / renderElement), the isolator entry (prepare), the        *)
(* painter entry (render) and the background resolution                    *)
(* (parseBackgroundColor).                                                 *)
(*                                                                         *)
(* The program is one async function running on a single thread.  Each     *)
(* action below is a piece of straight-line code; pc is the position of    *)
(* the function.  The positions "awaitPrepare", "awaitRender" and          *)
(* "awaitOp" are the suspension points (await): only there may the         *)
(* environment act (settle a promise, touch the live document).            *)
(***************************************************************************)
EXTENDS Integers, Sequences, FiniteSets

\* ------------------------------------------------------------------ bounds
MaxTotalHeight == 5
MaxSegmentHeight == 3
MaxScaleHalves == 3
ScrollWidth == 2

\* ele.scrollHeight
TotalHeights == 0..MaxTotalHeight
\* segmentHeight is any number: the code does not validate it
SegmentHeights == (0 - 1)..MaxSegmentHeight
\* window.devicePixelRatio in halves: 2 is 1.0, 3 is 1.5, 4 is 2.0
ScaleHalves == 2..MaxScaleHalves
\* cap on painter invocations of one sweep (only a sweep that makes no
\* progress reaches it)
MaxPaints == MaxTotalHeight + 1

\* what the caller may pass as element
Elements == {"null", "notObject", "detached", "noWindow", "ok"}
\* opts.removeContainer
RemoveContainerOpts == {"unset", "true", "false"}

\* ------------------------------------------------------------------ colours
\* A colour is the packed 32-bit RGBA value of the code, kept as its two
\* parts: rgb (the upper 24 bits) and a (the alpha byte).  Two colours are
\* the same packed number exactly if both parts agree.
Color(rgb, a) == [rgb |-> rgb, a |-> a]

\* COLORS.TRANSPARENT (0x00000000)
COLORS_TRANSPARENT == Color(0, 0)

\* 0xffffffff
OPAQUE_WHITE == Color(16777215, 255)

\* the colour strings of the model with their value
ColorTable ==
    [s \in {"transparent", "rgba(0, 0, 0, 0)", "rgba(255, 0, 0, 0)",
            "rgb(255, 0, 0)", "rgb(0, 0, 255)", "rgb(255, 255, 255)"} |->
        CASE s = "transparent" -> Color(0, 0)
          [] s = "rgba(0, 0, 0, 0)" -> Color(0, 0)
          [] s = "rgba(255, 0, 0, 0)" -> Color(16711680, 0)
          [] s = "rgb(255, 0, 0)" -> Color(16711680, 255)
          [] s = "rgb(0, 0, 255)" -> Color(255, 255)
          [] s = "rgb(255, 255, 255)" -> Color(16777215, 255)]

ColorStrings == DOMAIN ColorTable

\* parseColor(context, value): string -> packed colour
parseColor(s) == ColorTable[s]

\* isTransparent(color): the alpha byte is zero
isTransparent(c) == c.a = 0

\* ------------------------------------------------------------------ state
VARIABLES
    pc,               \* position of the async function
    mode,             \* "none", "segmented", "single"
    ele,              \* the element passed
    removeContainer,  \* opts.removeContainer
    segmentHeight,    \* argument segmentHeight
    totalHeight,      \* ele.scrollHeight
    scaleHalves,      \* window.devicePixelRatio, in halves
    viaBlobList,      \* the sweep was started by html2canvasSegmentedGetBlobList
    foreignObjectRendering,  \* opts.foreignObjectRendering ?? false
    curTop,           \* local curTop
    height,           \* local height
    canvas,           \* the scratch raster buffer
    container,        \* the isolation iframe: "none", "attached", "detached"
    contextCreated,   \* a Context was constructed
    outcome,          \* of the returned promise: "pending", "resolved", "rejected"
    error,            \* the rejection reason
    inflight,         \* promises not yet settled: [render |-> n, op |-> n]
    log,              \* history of the calls made, in order
    errorLog,         \* messages given to context.logger.error
    rst,              \* html2canvasSegmentedGetBlobList: the blobs collected
    bgIn,             \* inputs of parseBackgroundColor
    bgOut,            \* its result
    rootStyle,        \* root.styles.backgroundColor of the paint tree's root
    painterBg         \* renderOptions.backgroundColor as given to the painter

inputs == <<mode, ele, removeContainer, segmentHeight, totalHeight, scaleHalves,
            viaBlobList, foreignObjectRendering>>
locals == <<curTop, height>>
bgVars == <<bgIn, bgOut, rootStyle, painterBg>>
vars == <<pc, inputs, locals, canvas, container, contextCreated, outcome, error,
          inflight, log, errorLog, bgVars, rst>>

NoCanvas == [state |-> "none", width |-> 0, height |-> 0, dirty |-> FALSE]
\* backgroundColorOverride: unset (undefined), null, or a colour string
Overrides ==
    {[kind |-> "unset", value |-> "transparent"],
     [kind |-> "null", value |-> "transparent"]}
        \cup {[kind |-> "string", value |-> s] : s \in ColorStrings}

\* the computed background of an element of the document, or "absent" when the
\* document has no such element
Backgrounds == ColorStrings \cup {"absent"}

\* doc, body: the computed backgrounds of ownerDocument.documentElement and
\* ownerDocument.body; root: element === ownerDocument.documentElement
BgInputs ==
    {i \in [doc : Backgrounds, body : Backgrounds, root : BOOLEAN,
            override : Overrides] : i.root => i.doc # "absent"}

NoBg == [doc |-> "transparent", body |-> "transparent", root |-> FALSE,
         override |-> [kind |-> "unset", value |-> "transparent"]]

\* ------------------------------------------------------------------ helpers
Min(a, b) == IF a < b THEN a ELSE b

\* the window's height without the cut at the element's end
SegHeight_noMin(total, top, seg) == seg

\* the window's height with a segmentHeight below 1 taken as 1
SegHeight_atLeastOne(total, top, seg) ==
    Min(total - top, IF seg < 1 THEN 1 ELSE seg)

\* Math.min(totalHeight - curTop, segmentHeight)
SegHeight(total, top, seg) == Min(total - top, seg)

\* Math.floor(scale * v)
ScaledFloor(sc, v) == (sc * v) \div 2

Event(name, a, b) == <<name, a, b>>

RECURSIVE CountOf(_, _)
CountOf(s, name) ==
    IF s = <<>> THEN 0
    ELSE (IF Head(s)[1] = name THEN 1 ELSE 0) + CountOf(Tail(s), name)

Only(s, names) == SelectSeq(s, LAMBDA e : e[1] \in names)

\* the (y, height) windows given to the painter, in order
Windows == Only(log, {"paint"})

\* the promise returned by the operation rejects with reason msg
Rejects(msg) ==
    /\ outcome' = "rejected"
    /\ error' = msg
    /\ pc' = "done"

\* ------------------------------------------------------------------ Init
Init ==
    /\ pc = "idle"
    /\ mode = "none"
    /\ ele = "ok"
    /\ removeContainer = "unset"
    /\ segmentHeight = 1
    /\ totalHeight = 0
    /\ scaleHalves = 2
    /\ viaBlobList = FALSE
    /\ foreignObjectRendering = FALSE
    /\ rst = <<>>
    /\ curTop = 0
    /\ height = 0
    /\ canvas = NoCanvas
    /\ container = "none"
    /\ contextCreated = FALSE
    /\ outcome = "pending"
    /\ error = ""
    /\ inflight = [render |-> 0, op |-> 0]
    /\ log = <<>>
    /\ errorLog = <<>>
    /\ bgIn = NoBg
    /\ bgOut = COLORS_TRANSPARENT
    /\ rootStyle = COLORS_TRANSPARENT
    /\ painterBg = COLORS_TRANSPARENT

\* ------------------------------------------------------------------ entries
\* html2canvasSegmented(ele, option, segmentHeight, op), up to the call of
\* prepare; via says whether html2canvasSegmentedGetBlobList made the call
sweepEntry(via) ==
    /\ pc = "idle"
    /\ \E e \in Elements, rc \in RemoveContainerOpts, sh \in SegmentHeights,
          th \in TotalHeights, sc \in ScaleHalves, fo \in BOOLEAN :
        /\ mode' = "segmented"
        /\ ele' = e
        /\ removeContainer' = rc
        /\ segmentHeight' = sh
        /\ totalHeight' = th
        /\ scaleHalves' = sc
        /\ foreignObjectRendering' = fo
        /\ viaBlobList' = via
        /\ IF e = "null"
           THEN Rejects("element is null")
           ELSE /\ pc' = "prepare"
                /\ UNCHANGED <<outcome, error>>
    /\ UNCHANGED <<locals, canvas, container, contextCreated, inflight, log,
                   errorLog, bgVars>>

\* html2canvasSegmented called by the user, with an op of the user
html2canvasSegmented ==
    /\ sweepEntry(FALSE)
    /\ UNCHANGED rst

\* html2canvasSegmentedGetBlobList(ele, option, segmentHeight, mineType):
\* const rst = [], then html2canvasSegmented with the op that encodes the
\* canvas and pushes the blob
html2canvasSegmentedGetBlobList ==
    /\ sweepEntry(TRUE)
    /\ rst' = <<>>

\* html2canvas(element, options) = renderElement(element, options), up to the
\* call of prepare
renderElement ==
    /\ pc = "idle"
    /\ \E e \in Elements, rc \in RemoveContainerOpts, sc \in ScaleHalves,
          fo \in BOOLEAN :
        /\ mode' = "single"
        /\ ele' = e
        /\ removeContainer' = rc
        /\ scaleHalves' = sc
        /\ foreignObjectRendering' = fo
    /\ pc' = "prepare"
    /\ UNCHANGED <<segmentHeight, totalHeight, viaBlobList, locals, canvas, container,
                   contextCreated, outcome, error, inflight, log, errorLog,
                   bgVars, rst>>

\* ------------------------------------------------------------------ prepare
\* prepare without the test of ownerDocument.defaultView
prepare_noWindowCheck ==
    /\ pc = "prepare"
    /\ \E cloneFound \in BOOLEAN :
        IF ele \in {"null", "notObject"}
        THEN /\ Rejects("Invalid element provided as first argument")
             /\ log' = Append(log, Event("prepare", 0, 0))
             /\ UNCHANGED <<contextCreated, container>>
        ELSE IF ele = "detached"
        THEN /\ Rejects("Element is not attached to a Document")
             /\ log' = Append(log, Event("prepare", 0, 0))
             /\ UNCHANGED <<contextCreated, container>>
        ELSE IF ~cloneFound
        THEN /\ Rejects("Unable to find element in cloned iframe")
             /\ contextCreated' = TRUE
             /\ log' = Append(log, Event("prepare", 0, 0))
             /\ UNCHANGED container
        ELSE /\ contextCreated' = TRUE
             /\ container' = "attached"
             /\ log' = Append(log, Event("prepare", 0, 0))
             /\ pc' = "awaitPrepare"
             /\ UNCHANGED <<outcome, error>>
    /\ UNCHANGED <<inputs, locals, canvas, inflight, errorLog, bgVars, rst>>

\* prepare(element, opts) up to its await of documentCloner.toIFrame
prepare ==
    /\ pc = "prepare"
    /\ \E cloneFound \in BOOLEAN :
        IF ele \in {"null", "notObject"}
        THEN /\ Rejects("Invalid element provided as first argument")
             /\ log' = Append(log, Event("prepare", 0, 0))
             /\ UNCHANGED <<contextCreated, container>>
        ELSE IF ele = "detached"
        THEN /\ Rejects("Element is not attached to a Document")
             /\ log' = Append(log, Event("prepare", 0, 0))
             /\ UNCHANGED <<contextCreated, container>>
        ELSE IF ele = "noWindow"
        THEN /\ Rejects("Document is not attached to a Window")
             /\ log' = Append(log, Event("prepare", 0, 0))
             /\ UNCHANGED <<contextCreated, container>>
        ELSE IF ~cloneFound
        THEN /\ Rejects("Unable to find element in cloned iframe")
             /\ contextCreated' = TRUE
             /\ log' = Append(log, Event("prepare", 0, 0))
             /\ UNCHANGED container
        ELSE /\ contextCreated' = TRUE
             /\ container' = "attached"
             /\ log' = Append(log, Event("prepare", 0, 0))
             /\ pc' = "awaitPrepare"
             /\ UNCHANGED <<outcome, error>>
    /\ UNCHANGED <<inputs, locals, canvas, inflight, errorLog, bgVars, rst>>

\* documentCloner.toIFrame resolves: prepare resolves, and the caller goes on
toIFrame_resolve ==
    /\ pc = "awaitPrepare"
    /\ pc' = IF mode = "segmented" THEN "setup" ELSE "render"
    /\ UNCHANGED <<inputs, locals, canvas, container, contextCreated, outcome,
                   error, inflight, log, errorLog, bgVars, rst>>

\* documentCloner.toIFrame rejects: prepare rejects, and so does the caller
toIFrame_reject ==
    /\ pc = "awaitPrepare"
    /\ Rejects("toIFrame failed")
    /\ UNCHANGED <<inputs, locals, canvas, container, contextCreated, inflight,
                   log, errorLog, bgVars, rst>>

\* ------------------------------------------------------------------ canvas
\* document.createElement('canvas'): no size assigned by the program yet
createCanvas == [state |-> "live", width |-> 0, height |-> 0, dirty |-> FALSE]

\* canvas.width = w; canvas.height = h (assigning a size resets the bitmap);
\* the record keeps the numbers the program assigned
setSize(c, w, h) == [c EXCEPT !.width = w, !.height = h, !.dirty = FALSE]

\* ctx.clearRect(0, 0, canvas.width, canvas.height)
clearRect(c) == [c EXCEPT !.dirty = FALSE]

\* a release that leaves the buffer as it is
releaseCanvas_keep(c) == c

\* releaseCanvas(canvas)
releaseCanvas(c) == [c EXCEPT !.width = 1, !.height = 1, !.dirty = FALSE]

\* canvas.remove(); canvas = null
freeCanvas(c) == [c EXCEPT !.state = "freed", !.width = 0, !.height = 0,
                           !.dirty = FALSE]

\* ------------------------------------------------------------------ container
\* DocumentCloner.destroy(container): detaches the iframe if it still has a
\* parent and says whether it did
DocumentCloner_destroy(c) ==
    [result |-> (c = "attached"),
     container |-> IF c = "attached" THEN "detached" ELSE c]

\* destroyContainer(container)
destroyContainer(c) == DocumentCloner_destroy(c)

\* opts.removeContainer ?? true
shouldRemove(rc) == rc # "false"

Bit(b) == IF b THEN 1 ELSE 0

\* ------------------------------------------------------------------ sweep
\* html2canvasSegmented after prepare resolved: the buffer is created and
\* sized, totalHeight is read, curTop starts at 0
setup ==
    /\ pc = "setup"
    /\ \E ctxOk \in BOOLEAN :
        IF ~ctxOk
        THEN /\ Rejects("ctx is null, maybe used too may resources")
             /\ canvas' = createCanvas
             /\ log' = Append(log, Event("noContext", 0, 0))
             /\ UNCHANGED curTop
        ELSE /\ canvas' = setSize(createCanvas,
                                  ScaledFloor(scaleHalves, ScrollWidth),
                                  ScaledFloor(scaleHalves, segmentHeight))
             /\ curTop' = 0
             /\ pc' = "loopTest"
             /\ UNCHANGED <<outcome, error, log>>
    /\ UNCHANGED <<inputs, height, container, contextCreated, inflight,
                   errorLog, bgVars, rst>>

\* the loop's test with <= for <
loopTest_inclusive ==
    /\ pc = "loopTest"
    /\ IF curTop <= totalHeight
       THEN /\ CountOf(log, "paint") < MaxPaints
            /\ pc' = "resize"
       ELSE pc' = "teardown"
    /\ UNCHANGED <<inputs, locals, canvas, container, contextCreated, outcome,
                   error, inflight, log, errorLog, bgVars, rst>>

\* while (curTop < totalHeight)
loopTest ==
    /\ pc = "loopTest"
    /\ IF curTop < totalHeight
       THEN /\ CountOf(log, "paint") < MaxPaints
            /\ pc' = "resize"
       ELSE pc' = "teardown"
    /\ UNCHANGED <<inputs, locals, canvas, container, contextCreated, outcome,
                   error, inflight, log, errorLog, bgVars, rst>>

\* the head of the loop body: the window's height, the buffer resized to it,
\* its 2D context obtained
resize ==
    /\ pc = "resize"
    /\ height' = SegHeight(totalHeight, curTop, segmentHeight)
    /\ canvas' = setSize(canvas, ScaledFloor(scaleHalves, ScrollWidth),
                         ScaledFloor(scaleHalves, height'))
    /\ \E ctxOk \in BOOLEAN :
        IF ~ctxOk
        THEN /\ Rejects("ctx is null, maybe used too may resources")
             /\ log' = Append(log, Event("noContext", 0, 0))
        ELSE /\ pc' = "render"
             /\ UNCHANGED <<outcome, error, log>>
    /\ UNCHANGED <<inputs, curTop, container, contextCreated, inflight,
                   errorLog, bgVars, rst>>

\* ------------------------------------------------------------------ render
\* where the caller of render goes on once render has resolved
afterRender(m) == IF m = "segmented" THEN "callOp" ELSE "finish"

\* what a call of render adds to the history: with the software painter the
\* paint tree is built (parseTree) and then the painter is called with it; with
\* the foreignObject painter no tree is built (tree 0).  The painter call
\* carries y, height, the snapshot (context, clonedElement) in use and the
\* tree it is given.
renderEvents ==
    LET y == IF mode = "segmented" THEN curTop ELSE 0
        h == IF mode = "segmented" THEN height ELSE 0
        snap == CountOf(log, "prepare")
        tree == CountOf(log, "parseTree") + 1
    IN  IF foreignObjectRendering
        THEN << <<"paint", y, h, snap, 0>> >>
        ELSE << Event("parseTree", tree, 0), <<"paint", y, h, snap, tree>> >>

\* render called and not awaited
render_noAwait ==
    /\ pc = "render"
    /\ log' = log \o renderEvents
    /\ inflight' = [inflight EXCEPT !.render = @ + 1]
    /\ pc' = afterRender(mode)
    /\ UNCHANGED <<inputs, locals, canvas, container, contextCreated, outcome,
                   error, errorLog, bgVars, rst>>

\* render(context, element, clonedElement, opts) is called: it runs up to the
\* await of renderer.render.  The sweep passes y = curTop and height = height;
\* the single-shot capture passes neither (y is 0, the height the element's).
render ==
    /\ pc = "render"
    /\ log' = log \o renderEvents
    /\ inflight' = [inflight EXCEPT !.render = @ + 1]
    /\ pc' = "awaitRender"
    /\ UNCHANGED <<inputs, locals, canvas, container, contextCreated, outcome,
                   error, errorLog, bgVars, rst>>

\* renderer.render resolves; the painter has drawn on the surface it was
\* given (opts.canvas) and returns it
render_resolve ==
    /\ inflight.render > 0
    /\ inflight' = [inflight EXCEPT !.render = @ - 1]
    /\ log' = Append(log, Event("painted", 0, 0))
    /\ canvas' = IF canvas.state = "live"
                 THEN [canvas EXCEPT !.dirty = TRUE]
                 ELSE canvas
    /\ pc' = IF pc = "awaitRender" THEN afterRender(mode) ELSE pc
    /\ UNCHANGED <<inputs, locals, container, contextCreated, outcome, error,
                   errorLog, bgVars, rst>>

\* the rejection of renderer.render with the container torn down on the way
\* out, as a finally block would
render_reject_cleanup ==
    /\ inflight.render > 0
    /\ inflight' = [inflight EXCEPT !.render = @ - 1]
    /\ container' = destroyContainer(container).container
    /\ log' = log \o <<Event("paintFailed", 0, 0),
                       Event("destroy",
                             Bit(destroyContainer(container).result), 0)>>
    /\ IF pc = "awaitRender"
       THEN Rejects("render failed")
       ELSE UNCHANGED <<pc, outcome, error>>
    /\ UNCHANGED <<inputs, locals, canvas, contextCreated, errorLog, bgVars,
                   rst>>

\* renderer.render rejects: render rejects, and so does its caller
render_reject ==
    /\ inflight.render > 0
    /\ inflight' = [inflight EXCEPT !.render = @ - 1]
    /\ log' = Append(log, Event("paintFailed", 0, 0))
    /\ IF pc = "awaitRender"
       THEN Rejects("render failed")
       ELSE UNCHANGED <<pc, outcome, error>>
    /\ UNCHANGED <<inputs, locals, canvas, container, contextCreated, errorLog,
                   bgVars, rst>>

\* ------------------------------------------------------------------ op
\* what op(c) may do
OpKinds == {"undefined", "promise", "throws"}

\* the op of html2canvasSegmentedGetBlobList always returns a promise (a
\* throw of c.toBlob inside the executor is a rejection of it)
opKindsOf(via) == IF via THEN {"promise"} ELSE OpKinds

\* the reason op fails with
opError(via) == IF via THEN "to blob failed!" ELSE "op failed"

\* rst.unshift instead of rst.push
pushBlob_front(s, blob) == <<blob>> \o s

\* .then((blob) => rst.push(blob))
pushBlob(s, blob) == Append(s, blob)

\* a promise returned by op is not awaited
afterOp_noAwait(kind) == "release"

\* if (rst && typeof rst.then === 'function') await rst
afterOp(kind) == IF kind = "promise" THEN "awaitOp" ELSE "release"

\* const rst = op(c), and the test of what it returned
callOp ==
    /\ pc = "callOp"
    /\ \E kind \in opKindsOf(viaBlobList) :
        IF kind = "throws"
        THEN /\ Rejects(opError(viaBlobList))
             /\ log' = log \o <<Event("op", curTop, height),
                                Event("opFailed", 0, 0)>>
             /\ UNCHANGED inflight
        ELSE /\ pc' = afterOp(kind)
             /\ log' = IF kind = "promise"
                       THEN Append(log, Event("op", curTop, height))
                       ELSE log \o <<Event("op", curTop, height),
                                     Event("opDone", 0, 0)>>
             /\ inflight' = IF kind = "promise"
                            THEN [inflight EXCEPT !.op = @ + 1]
                            ELSE inflight
             /\ UNCHANGED <<outcome, error>>
    /\ UNCHANGED <<inputs, locals, canvas, container, contextCreated, errorLog,
                   bgVars, rst>>

\* the promise op returned resolves; the op of html2canvasSegmentedGetBlobList
\* then pushes the blob, the encoding of the window just painted
op_resolve ==
    /\ inflight.op > 0
    /\ inflight' = [inflight EXCEPT !.op = @ - 1]
    /\ log' = Append(log, Event("opDone", 0, 0))
    /\ rst' = IF viaBlobList THEN pushBlob(rst, <<curTop, height>>) ELSE rst
    /\ pc' = IF pc = "awaitOp" THEN "release" ELSE pc
    /\ UNCHANGED <<inputs, locals, canvas, container, contextCreated, outcome,
                   error, errorLog, bgVars>>

\* the rejection of op's promise is swallowed and the sweep goes on
op_reject_swallow ==
    /\ inflight.op > 0
    /\ inflight' = [inflight EXCEPT !.op = @ - 1]
    /\ log' = Append(log, Event("opFailed", 0, 0))
    /\ pc' = IF pc = "awaitOp" THEN "release" ELSE pc
    /\ UNCHANGED <<inputs, locals, canvas, container, contextCreated, outcome,
                   error, errorLog, bgVars, rst>>

\* the promise op returned rejects
op_reject ==
    /\ inflight.op > 0
    /\ inflight' = [inflight EXCEPT !.op = @ - 1]
    /\ log' = Append(log, Event("opFailed", 0, 0))
    /\ IF pc = "awaitOp"
       THEN Rejects(opError(viaBlobList))
       ELSE UNCHANGED <<pc, outcome, error>>
    /\ UNCHANGED <<inputs, locals, canvas, container, contextCreated, errorLog,
                   bgVars, rst>>

\* the tail of the loop body without curTop += height
release_noAdvance ==
    /\ pc = "release"
    /\ canvas' = releaseCanvas(clearRect(canvas))
    /\ log' = log \o <<Event("clear", 0, 0),
                       Event("release", canvas'.width, canvas'.height)>>
    /\ pc' = "loopTest"
    /\ UNCHANGED <<inputs, locals, container, contextCreated, outcome, error,
                   inflight, errorLog, bgVars, rst>>

\* the tail of the loop body: the pixels cleared, the buffer released, curTop
\* advanced
release ==
    /\ pc = "release"
    /\ canvas' = releaseCanvas(clearRect(canvas))
    /\ log' = log \o <<Event("clear", 0, 0),
                       Event("release", canvas'.width, canvas'.height)>>
    /\ curTop' = curTop + height
    /\ pc' = "loopTest"
    /\ UNCHANGED <<inputs, height, container, contextCreated, outcome, error,
                   inflight, errorLog, bgVars, rst>>

\* ------------------------------------------------------------------ teardown
\* the end of the sweep without canvas.remove(); canvas = null
teardown_noFree ==
    /\ pc = "teardown"
    /\ container' = destroyContainer(container).container
    /\ log' = Append(log, Event("destroy",
                                Bit(destroyContainer(container).result), 0))
    /\ outcome' = "resolved"
    /\ pc' = "done"
    /\ UNCHANGED <<inputs, locals, canvas, contextCreated, error, inflight,
                   errorLog, bgVars, rst>>

\* after the loop: canvas.remove(); canvas = null; destroyContainer(container)
teardown ==
    /\ pc = "teardown"
    /\ canvas' = freeCanvas(canvas)
    /\ container' = destroyContainer(container).container
    /\ log' = log \o <<Event("free", 0, 0),
                       Event("destroy", Bit(destroyContainer(container).result), 0)>>
    /\ outcome' = "resolved"
    /\ pc' = "done"
    /\ UNCHANGED <<inputs, locals, contextCreated, error, inflight, errorLog,
                   bgVars, rst>>

\* renderElement after render resolved: the optional teardown, and the result
finish ==
    /\ pc = "finish"
    /\ IF shouldRemove(removeContainer)
       THEN /\ container' = destroyContainer(container).container
            /\ log' = Append(log, Event("destroy",
                                        Bit(destroyContainer(container).result), 0))
            /\ errorLog' = IF ~destroyContainer(container).result
                           THEN Append(errorLog,
                                "Cannot detach cloned iframe as it is not in the DOM anymore")
                           ELSE errorLog
       ELSE UNCHANGED <<container, log, errorLog>>
    /\ outcome' = "resolved"
    /\ pc' = "done"
    /\ UNCHANGED <<inputs, locals, canvas, contextCreated, error, inflight,
                   bgVars, rst>>

\* ------------------------------------------------------------------ environment
\* While the operation is suspended, other code of the page may take the
\* iframe out of the document.
AtAwait == pc \in {"awaitPrepare", "awaitRender", "awaitOp"}

EnvRemoveContainer ==
    /\ AtAwait
    /\ container = "attached"
    /\ container' = "detached"
    /\ UNCHANGED <<pc, inputs, locals, canvas, contextCreated, outcome, error,
                   inflight, log, errorLog, bgVars, rst>>

\* ------------------------------------------------------------------ background
\* the colour of ownerDocument.documentElement or ownerDocument.body
computedBackground(b) ==
    IF b # "absent" THEN parseColor(b) ELSE COLORS_TRANSPARENT

\* defaultBackgroundColor
defaultBackgroundColor(o) ==
    IF o.kind = "string" THEN parseColor(o.value)
    ELSE IF o.kind = "null" THEN COLORS_TRANSPARENT
    ELSE OPAQUE_WHITE

\* an override that is set wins over the document's and the body's background
parseBackgroundColor_overrideFirst(i) ==
    IF i.root /\ i.override.kind = "unset"
    THEN IF isTransparent(computedBackground(i.doc))
         THEN IF isTransparent(computedBackground(i.body))
              THEN defaultBackgroundColor(i.override)
              ELSE computedBackground(i.body)
         ELSE computedBackground(i.doc)
    ELSE defaultBackgroundColor(i.override)

\* the rule of the document root applied to every element
parseBackgroundColor_rootRule(i) ==
    IF isTransparent(computedBackground(i.doc))
    THEN IF isTransparent(computedBackground(i.body))
         THEN defaultBackgroundColor(i.override)
         ELSE computedBackground(i.body)
    ELSE computedBackground(i.doc)

\* parseBackgroundColor(context, element, backgroundColorOverride)
parseBackgroundColor(i) ==
    IF i.root
    THEN IF isTransparent(computedBackground(i.doc))
         THEN IF isTransparent(computedBackground(i.body))
              THEN defaultBackgroundColor(i.override)
              ELSE computedBackground(i.body)
         ELSE computedBackground(i.doc)
    ELSE defaultBackgroundColor(i.override)

\* the parsed computed background of the element captured: the document's
\* when the element is the document's root
ElementBackgrounds(i) ==
    IF i.root THEN {parseColor(i.doc)}
    ELSE {parseColor(s) : s \in ColorStrings}

\* the state before a call of parseBackgroundColor: any inputs
InitBg ==
    /\ pc = "bg"
    /\ mode = "none"
    /\ ele = "ok"
    /\ removeContainer = "unset"
    /\ segmentHeight = 1
    /\ totalHeight = 0
    /\ scaleHalves = 2
    /\ viaBlobList = FALSE
    /\ foreignObjectRendering \in BOOLEAN
    /\ rst = <<>>
    /\ curTop = 0
    /\ height = 0
    /\ canvas = NoCanvas
    /\ container = "none"
    /\ contextCreated = FALSE
    /\ outcome = "pending"
    /\ error = ""
    /\ inflight = [render |-> 0, op |-> 0]
    /\ log = <<>>
    /\ errorLog = <<>>
    /\ bgIn \in BgInputs
    /\ bgOut = COLORS_TRANSPARENT
    /\ rootStyle \in ElementBackgrounds(bgIn)
    /\ painterBg = COLORS_TRANSPARENT

\* the call
parseBackgroundColor_call ==
    /\ pc = "bg"
    /\ bgOut' = parseBackgroundColor(bgIn)
    /\ pc' = "bgDone"
    /\ UNCHANGED <<inputs, locals, canvas, container, contextCreated, outcome,
                   error, inflight, log, errorLog, bgIn, rootStyle, painterBg,
                   rst>>

\* the root's background left as it is
suppressBackground_never(bg, style) == style

\* if (backgroundColor === root.styles.backgroundColor)
\*     root.styles.backgroundColor = COLORS.TRANSPARENT
suppressBackground(bg, style) ==
    IF bg = style THEN COLORS_TRANSPARENT ELSE style

\* render, computed rendering: the root of the tree built by parseTree has
\* its background suppressed, and CanvasRenderer gets renderOptions
render_computed ==
    /\ pc = "bgDone"
    /\ ~foreignObjectRendering
    /\ rootStyle' = suppressBackground(bgOut, rootStyle)
    /\ painterBg' = bgOut
    /\ pc' = "bgPainted"
    /\ UNCHANGED <<inputs, locals, canvas, container, contextCreated, outcome,
                   error, inflight, log, errorLog, bgIn, bgOut, rst>>

\* render, foreign object rendering: no tree, ForeignObjectRenderer gets
\* renderOptions
render_foreignObject ==
    /\ pc = "bgDone"
    /\ foreignObjectRendering
    /\ painterBg' = bgOut
    /\ pc' = "bgPainted"
    /\ UNCHANGED <<inputs, locals, canvas, container, contextCreated, outcome,
                   error, inflight, log, errorLog, bgIn, bgOut, rootStyle, rst>>

NextBg ==
    \/ parseBackgroundColor_call
    \/ render_computed
    \/ render_foreignObject

SpecBg == InitBg /\ [][NextBg]_vars

Next ==
    \/ html2canvasSegmented
    \/ html2canvasSegmentedGetBlobList
    \/ renderElement
    \/ prepare
    \/ toIFrame_resolve
    \/ toIFrame_reject
    \/ setup
    \/ loopTest
    \/ resize
    \/ render
    \/ render_resolve
    \/ render_reject
    \/ callOp
    \/ op_resolve
    \/ op_reject
    \/ release
    \/ teardown
    \/ finish
    \/ EnvRemoveContainer

Spec == Init /\ [][Next]_vars

\* ------------------------------------------------------------------ liveness
\* the steps of the function itself: JavaScript runs them to completion
Run ==
    \/ prepare
    \/ setup
    \/ loopTest
    \/ resize
    \/ render
    \/ callOp
    \/ release
    \/ teardown
    \/ finish

\* a promise the function awaits is settled
Settle ==
    \/ toIFrame_resolve
    \/ toIFrame_reject
    \/ render_resolve
    \/ render_reject
    \/ op_resolve
    \/ op_reject

\* the function goes on whenever it can, and every promise it awaits is
\* settled at some time
SpecLive == Init /\ [][Next]_vars /\ WF_vars(Run) /\ WF_vars(Settle)

\* ------------------------------------------------------------------ claims
Last(s) == s[Len(s)]

\* the events of the painter and of op, in order
PaintOpEvents ==
    Only(log, {"paint", "painted", "paintFailed", "op", "opDone", "opFailed"})

\* C1: in a sweep with totalHeight > 0 and segmentHeight > 0 the windows
\* (y, height) given to the painter start at 0, each starts where the one
\* before ended, each has height min(segmentHeight, totalHeight - y), and once
\* the sweep has resolved the last one ends at totalHeight: top to bottom, no
\* overlap, no gap, the union is [0, totalHeight).
C1_WindowsPartition ==
    (mode = "segmented" /\ totalHeight > 0 /\ segmentHeight > 0) =>
        LET W == Windows IN
        /\ \A i \in 1..Len(W) :
            /\ (i = 1) => (W[i][2] = 0)
            /\ (i < Len(W)) => (W[i + 1][2] = W[i][2] + W[i][3])
            /\ W[i][3] = Min(segmentHeight, totalHeight - W[i][2])
            /\ W[i][3] > 0
            /\ W[i][2] + W[i][3] <= totalHeight
        /\ (outcome = "resolved") =>
            /\ Len(W) > 0
            /\ Last(W)[2] + Last(W)[3] = totalHeight

\* a sweep that resolved after three windows, the last one shorter
C1_Witness ==
    /\ mode = "segmented"
    /\ outcome = "resolved"
    /\ segmentHeight > 0
    /\ Len(Windows) = 3
    /\ Last(Windows)[3] < segmentHeight

\* C2: back-pressure.  The painter and op events of a sweep strictly
\* alternate paint, painted, op, opDone, ...; at most one promise is in flight;
\* and while the promise op returned for a segment is in flight the sweep
\* waits: nothing of the next segment has started, the buffer still has the
\* segment's size and pixels, and curTop has not advanced.
C2_BackPressure ==
    (mode = "segmented") =>
        LET E == PaintOpEvents IN
        /\ inflight.render + inflight.op <= 1
        /\ \A k \in 1..Len(E) :
            /\ (k % 4 = 1) => (E[k][1] = "paint")
            /\ (k % 4 = 2) => (E[k][1] \in {"painted", "paintFailed"})
            /\ (k % 4 = 3) => (E[k][1] = "op" /\ E[k - 2][1] = "paint"
                               /\ E[k][2] = E[k - 2][2] /\ E[k][3] = E[k - 2][3])
            /\ (k % 4 = 0) => (E[k][1] \in {"opDone", "opFailed"})
            /\ (E[k][1] \in {"paintFailed", "opFailed"}) => (k = Len(E))
        /\ (inflight.render = 1) => (pc = "awaitRender" /\ Last(E)[1] = "paint")
        /\ (inflight.op = 1) =>
            /\ pc = "awaitOp"
            /\ Last(log)[1] = "op"
            /\ Last(log)[2] = curTop
            /\ canvas.state = "live"
            /\ canvas.dirty
            /\ canvas.width = ScaledFloor(scaleHalves, ScrollWidth)
            /\ canvas.height = ScaledFloor(scaleHalves, height)

\* the sweep waits for the promise op returned for its second segment
C2_Witness ==
    /\ mode = "segmented"
    /\ inflight.op = 1
    /\ CountOf(log, "paint") = 2
    /\ curTop > 0

\* C3: memory bound.  After each op that finished, the next events of the
\* sweep are the clearing of the pixels and the release of the buffer to 1x1,
\* and only then may the painter be called again; a painted buffer that was not
\* released is the one of the last window (at most one at a time), and when the
\* loop is about to go on the buffer is 1x1 and holds no pixels.
C3_BufferReleased ==
    (mode = "segmented") =>
        LET E == Only(log, {"paint", "opDone", "clear", "release"}) IN
        /\ \A k \in 1..Len(E) :
            /\ (E[k][1] = "opDone" /\ k < Len(E)) => (E[k + 1][1] = "clear")
            /\ (E[k][1] = "clear") =>
                (k > 1 /\ E[k - 1][1] = "opDone" /\ k < Len(E)
                 /\ E[k + 1] = Event("release", 1, 1))
            /\ (E[k][1] = "paint" /\ k > 1) => (E[k - 1] = Event("release", 1, 1))
        /\ CountOf(log, "painted") - CountOf(log, "release") \in {0, 1}
        /\ (pc \in {"loopTest", "resize", "teardown"} /\ CountOf(log, "op") > 0) =>
            (canvas.width = 1 /\ canvas.height = 1 /\ ~canvas.dirty)

\* the painter is called for a second segment, after the first was released
C3_Witness ==
    /\ mode = "segmented"
    /\ CountOf(log, "release") >= 1
    /\ CountOf(log, "paint") >= 2
    /\ pc = "awaitRender"

\* the events that are a fatal failure of a segment
Failures == {"paintFailed", "opFailed", "noContext"}

\* a capture of an element that has something to paint: a single-shot
\* capture, or a sweep with totalHeight > 0 and segmentHeight > 0
ProperCapture ==
    \/ mode = "single"
    \/ mode = "segmented" /\ totalHeight > 0 /\ segmentHeight > 0

\* C4: cleanup on failure.  When a sweep has rejected because the painter, the
\* 2D context or op failed at a segment, the scratch buffer has been freed and
\* the container has been torn down.
C4_CleanupOnFailure ==
    (mode = "segmented" /\ ProperCapture /\ outcome = "rejected"
     /\ CountOf(log, "paint") >= 1 /\ Last(log)[1] \in Failures) =>
        /\ canvas.state = "freed"
        /\ CountOf(log, "destroy") >= 1
        /\ container # "attached"

\* C5: fail-stop.  A failure of the painter, of the 2D context or of op is the
\* last thing the sweep does: no painter call and no op call follows it, no
\* promise is left in flight, and the operation has rejected and is over.
C5_FailStop ==
    (mode = "segmented") =>
        \A k \in 1..Len(log) :
            (log[k][1] \in Failures) =>
                /\ k = Len(log)
                /\ outcome = "rejected"
                /\ pc = "done"
                /\ inflight.render = 0
                /\ inflight.op = 0

\* op's promise rejected at the second segment, with more of the element left
C5_Witness ==
    /\ mode = "segmented"
    /\ Len(log) > 0
    /\ Last(log)[1] = "opFailed"
    /\ CountOf(log, "paint") = 2
    /\ segmentHeight > 0
    /\ curTop + height < totalHeight
    /\ outcome = "rejected"

\* C6: the single-shot capture runs prepare, then render (one painter call),
\* then the optional teardown, in that order.  If prepare fails the operation
\* rejects and the painter is never called; the teardown comes only after the
\* painter has finished.
C6_SingleShotOrder ==
    (mode = "single") =>
        LET E == Only(log, {"prepare", "paint", "painted", "paintFailed",
                            "destroy"}) IN
        /\ \A k \in 1..Len(E) :
            /\ (E[k][1] = "prepare") <=> (k = 1)
            /\ (E[k][1] = "paint") =>
                (k = 2 /\ contextCreated /\ container # "none")
            /\ (E[k][1] \in {"painted", "paintFailed"}) =>
                (k = 3 /\ E[2][1] = "paint")
            /\ (E[k][1] = "destroy") => (k = 4 /\ E[3][1] = "painted")
        /\ (outcome = "rejected" /\ error # "render failed") =>
            CountOf(log, "paint") = 0
        /\ (outcome = "resolved") =>
            (CountOf(log, "paint") = 1 /\ CountOf(log, "painted") = 1)
        /\ (pc = "finish" \/ CountOf(log, "destroy") > 0) => (inflight.render = 0)

\* a single-shot capture that resolved after tearing the container down
C6_Witness ==
    /\ mode = "single"
    /\ outcome = "resolved"
    /\ CountOf(log, "destroy") = 1

\* C7: a capture that resolved has called destroyContainer if removeContainer
\* is true or unset, and has not called it if removeContainer is false.
C7_RemoveContainerOptOut ==
    (ProperCapture /\ outcome = "resolved") =>
        IF removeContainer = "false"
        THEN CountOf(log, "destroy") = 0
        ELSE CountOf(log, "destroy") = 1

\* C8: when destroyContainer returned false the operation still resolves and
\* the failure was given to the logger at error severity.
C8_TeardownFailureLogged ==
    (ProperCapture /\ \E k \in 1..Len(log) : log[k] = Event("destroy", 0, 0)) =>
        /\ outcome = "resolved"
        /\ Len(errorLog) = 1

\* C9: with a null element, an element attached to no document or a document
\* attached to no window, the operation does nothing but reject: no Context,
\* no container, no scratch buffer, no painter call, no op call.
C9_PreconditionAborts ==
    (mode # "none" /\ ele \in {"null", "detached", "noWindow"}) =>
        /\ pc \in {"prepare", "done"}
        /\ (pc = "done") => (outcome = "rejected" /\ error # "")
        /\ (pc # "done") => (outcome = "pending")
        /\ ~contextCreated
        /\ container = "none"
        /\ canvas.state = "none"
        /\ CountOf(log, "paint") = 0
        /\ CountOf(log, "op") = 0
        /\ inflight.render = 0
        /\ inflight.op = 0

\* a sweep asked for an element whose document has no window has rejected
C9_Witness ==
    /\ mode = "segmented"
    /\ ele = "noWindow"
    /\ pc = "done"
    /\ outcome = "rejected"

\* C10: for the document root the result is the document element's background
\* unless that is transparent, else the body's unless that is transparent,
\* else the default of the override: its parsed colour for a string,
\* transparent for null, opaque white when unset.
C10_RootBackground ==
    (pc = "bgDone" /\ bgIn.root) =>
        LET d == computedBackground(bgIn.doc)
            b == computedBackground(bgIn.body)
            o == bgIn.override
            bothTransparent == isTransparent(d) /\ isTransparent(b)
        IN  /\ (~isTransparent(d)) => (bgOut = d)
            /\ (isTransparent(d) /\ ~isTransparent(b)) => (bgOut = b)
            /\ (bothTransparent /\ o.kind = "string") =>
                (bgOut = parseColor(o.value))
            /\ (bothTransparent /\ o.kind = "null") =>
                (bgOut = COLORS_TRANSPARENT)
            /\ (bothTransparent /\ o.kind = "unset") => (bgOut = OPAQUE_WHITE)

\* the root with a transparent document and body and a null override: the
\* result is transparent
C10_Witness ==
    /\ pc = "bgDone"
    /\ bgIn.root
    /\ bgIn.doc = "rgba(0, 0, 0, 0)"
    /\ bgIn.body = "rgba(0, 0, 0, 0)"
    /\ bgIn.override.kind = "null"
    /\ bgOut = COLORS_TRANSPARENT

\* C11: for an element that is not the document root the result is decided
\* by the override alone, whatever the document's and the body's background:
\* the parsed colour of a string, transparent for null, opaque white when
\* unset.
C11_NonRootBackground ==
    (pc = "bgDone" /\ ~bgIn.root) =>
        /\ (bgIn.override.kind = "string") =>
            (bgOut = parseColor(bgIn.override.value))
        /\ (bgIn.override.kind = "null") => (bgOut = COLORS_TRANSPARENT)
        /\ (bgIn.override.kind = "unset") => (bgOut = OPAQUE_WHITE)

\* an element that is not the root, in a document with an opaque red root and
\* an opaque blue body, with a null override: the result is transparent
C11_Witness ==
    /\ pc = "bgDone"
    /\ ~bgIn.root
    /\ bgIn.doc = "rgb(255, 0, 0)"
    /\ bgIn.body = "rgb(0, 0, 255)"
    /\ bgIn.override.kind = "null"
    /\ bgOut = COLORS_TRANSPARENT

\* ceil(a / b) for b > 0
CeilDiv(a, b) == (a + b - 1) \div b

\* C12: html2canvasSegmentedGetBlobList collects one blob per window, in the
\* order of the windows: blob i is the encoding of window i and is in the list
\* before window i + 1 is painted.  When it resolves the list has
\* ceil(totalHeight / segmentHeight) blobs.  When the encoding of a window
\* gives no blob the operation rejects and nothing more is painted.
C12_BlobList ==
    (viaBlobList /\ totalHeight > 0 /\ segmentHeight > 0) =>
        LET W == Windows IN
        /\ Len(rst) = CountOf(log, "opDone")
        /\ Len(W) - Len(rst) \in {0, 1}
        /\ \A i \in 1..Len(rst) : rst[i] = <<W[i][2], W[i][3]>>
        /\ (outcome = "resolved") =>
            /\ Len(rst) = CeilDiv(totalHeight, segmentHeight)
            /\ Len(rst) = Len(W)
        /\ \A k \in 1..Len(log) :
            (log[k][1] = "opFailed") =>
                /\ k = Len(log)
                /\ outcome = "rejected"
                /\ error = "to blob failed!"
                /\ pc = "done"

\* the list of three blobs of an element of height 5 swept in segments of 2
C12_Witness ==
    /\ viaBlobList
    /\ outcome = "resolved"
    /\ totalHeight = 5
    /\ segmentHeight = 2
    /\ rst = << <<0, 2>>, <<2, 2>>, <<4, 1>> >>

\* a sweep with integer totalHeight >= 1 and segmentHeight >= 1
ProperSweep == mode = "segmented" /\ totalHeight >= 1 /\ segmentHeight >= 1

\* the operation rejected because a step failed: the isolator, the 2D
\* context, the painter or op
SomethingFailed == outcome = "rejected" /\ error # ""

\* C13: termination.  In a sweep with totalHeight >= 1 and segmentHeight >= 1,
\* curTop never exceeds totalHeight and grows at every iteration; if every
\* promise awaited is settled the sweep comes to an end: it resolves, unless
\* a step failed; and it resolves after exactly
\* ceil(totalHeight / segmentHeight) calls of op.
C13_Termination ==
    /\ [](ProperSweep =>
            /\ curTop >= 0
            /\ curTop <= totalHeight
            /\ (outcome = "resolved") =>
                /\ CountOf(log, "op") = CeilDiv(totalHeight, segmentHeight)
                /\ CountOf(log, "opDone") = CeilDiv(totalHeight, segmentHeight)
                /\ curTop = totalHeight)
    /\ [][ProperSweep =>
            /\ curTop' >= curTop
            /\ (pc = "release" /\ pc' # "release") => (curTop' > curTop)]_vars
    /\ (ProperSweep ~> (outcome = "resolved" \/ SomethingFailed))

\* a sweep of an element of height 5 in segments of 2 resolved after 3 calls
\* of op
C13_Witness ==
    /\ ProperSweep
    /\ outcome = "resolved"
    /\ totalHeight = 5
    /\ segmentHeight = 2
    /\ CountOf(log, "op") = 3

\* C14: a sweep calls prepare once, before anything else; every call of the
\* painter gets the snapshot (context, clonedElement) of that one call; and a
\* sweep that resolved has freed the buffer once and torn the container down
\* once, as its last two steps, after the last op finished and its buffer was
\* released.
C14_OneSnapshot ==
    (mode = "segmented") =>
        LET n == Len(log) IN
        /\ CountOf(log, "prepare") <= 1
        /\ (n > 0) => (log[1][1] = "prepare")
        /\ \A k \in 1..n :
            /\ (log[k][1] = "paint") => (log[k][4] = 1)
            /\ (log[k][1] = "free") => (k = n - 1 /\ log[n][1] = "destroy")
            /\ (log[k][1] = "destroy") => (k = n /\ log[n - 1][1] = "free")
        /\ (outcome = "resolved") =>
            /\ CountOf(log, "prepare") = 1
            /\ CountOf(log, "free") = 1
            /\ CountOf(log, "destroy") = 1
            /\ canvas.state = "freed"
            /\ CountOf(log, "opDone") = CountOf(log, "paint")
            /\ (CountOf(log, "paint") > 0) => (log[n - 2][1] = "release")

\* a sweep of three segments that resolved
C14_Witness ==
    /\ mode = "segmented"
    /\ outcome = "resolved"
    /\ CountOf(log, "paint") = 3
    /\ CountOf(log, "prepare") = 1

\* C15: the PaintNode tree is built once per capture.  Within one single-shot
\* or one segmented capture on the software painter path parseTree is invoked
\* at most once, and every call of the painter consumes that first tree.
C15_TreeBuiltOnce ==
    (ProperCapture /\ ~foreignObjectRendering) =>
        /\ CountOf(log, "parseTree") <= 1
        /\ \A k \in 1..Len(log) : (log[k][1] = "paint") => (log[k][5] = 1)

\* C16: double-paint suppression in render on the software painter path.
\* The step from the resolved colour to the painter sets the root paint
\* node's background to transparent when it equals the colour resolved by
\* parseBackgroundColor and leaves it as it was when it differs; in both cases
\* the painter gets the resolved colour as its page background.
C16_DoublePaintSuppression ==
    [][(pc = "bgDone" /\ pc' = "bgPainted" /\ ~foreignObjectRendering) =>
            /\ bgOut = parseBackgroundColor(bgIn)
            /\ (rootStyle = bgOut) => (rootStyle' = COLORS_TRANSPARENT)
            /\ (rootStyle # bgOut) => (rootStyle' = rootStyle)
            /\ painterBg' = bgOut
            /\ bgOut' = bgOut]_vars

\* the document's root with an opaque red background: the page background is
\* red and the root node's background has become transparent
C16_Witness ==
    /\ pc = "bgPainted"
    /\ ~foreignObjectRendering
    /\ bgIn.root
    /\ bgIn.doc = "rgb(255, 0, 0)"
    /\ painterBg = parseColor("rgb(255, 0, 0)")
    /\ rootStyle = COLORS_TRANSPARENT

\* C17: segmentHeight is not validated.  In a sweep with totalHeight > 0 and
\* segmentHeight <= 0 every window has a height <= 0 and curTop never grows,
\* so the loop's test holds every time it is made: the sweep never reaches
\* the teardown, frees no buffer, destroys no container, never resolves, and
\* rejects only when a step failed.
C17_NoProgress ==
    (mode = "segmented" /\ totalHeight > 0 /\ segmentHeight <= 0) =>
        /\ curTop <= 0
        /\ height <= 0
        /\ (pc = "loopTest") => (curTop < totalHeight)
        /\ pc # "teardown"
        /\ outcome # "resolved"
        /\ (outcome = "rejected") => (error # "")
        /\ CountOf(log, "free") = 0
        /\ CountOf(log, "destroy") = 0
        /\ \A k \in 1..Len(log) :
            (log[k][1] = "paint") => (log[k][2] <= 0 /\ log[k][3] <= 0)

\* a sweep with segmentHeight = 0 back at the loop's test, still pending,
\* after as many calls of the painter and of op as the model follows
C17_Witness ==
    /\ mode = "segmented"
    /\ totalHeight > 0
    /\ segmentHeight = 0
    /\ pc = "loopTest"
    /\ outcome = "pending"
    /\ CountOf(log, "paint") = MaxPaints
    /\ CountOf(log, "opDone") = MaxPaints

\* C18: the empty sweep.  In a sweep of an element with totalHeight = 0 the
\* isolator is called at most once and neither the painter nor op is ever
\* called; the sweep rejects only before the loop (the element, the isolator
\* or the first 2D context failed), and otherwise it resolves after exactly
\* one call of the isolator, the buffer freed and the container torn down;
\* the list of html2canvasSegmentedGetBlobList is then empty.
C18_EmptySweep ==
    (mode = "segmented" /\ totalHeight = 0) =>
        /\ CountOf(log, "prepare") <= 1
        /\ CountOf(log, "paint") = 0
        /\ CountOf(log, "op") = 0
        /\ rst = <<>>
        /\ (outcome = "rejected") =>
            \A k \in 1..Len(log) : log[k][1] \in {"prepare", "noContext"}
        /\ (pc = "done") => (outcome \in {"resolved", "rejected"})
        /\ (outcome = "resolved") =>
            /\ Len(log) = 3
            /\ log[1][1] = "prepare"
            /\ log[2][1] = "free"
            /\ log[3][1] = "destroy"
            /\ canvas.state = "freed"
            /\ container # "attached"

\* an empty sweep started by html2canvasSegmentedGetBlobList that resolved,
\* with the container destroyed by the sweep
C18_Witness ==
    /\ mode = "segmented"
    /\ totalHeight = 0
    /\ viaBlobList
    /\ outcome = "resolved"
    /\ rst = <<>>
    /\ Last(log) = Event("destroy", 1, 0)

\* C19: in a single-shot capture the container is torn down only after the
\* painter succeeded.  destroyContainer is called at most once and only after
\* a paint that finished; when the painter rejected, the operation has
\* rejected with the painter's failure, destroyContainer was not called,
\* nothing was logged, and the container made by the isolator is where the
\* isolator (or the page) left it, whatever removeContainer is.
C19_SingleShotNoCleanup ==
    (mode = "single") =>
        /\ CountOf(log, "destroy") <= 1
        /\ \A k \in 1..Len(log) :
            (log[k][1] = "destroy") => (k > 1 /\ log[k - 1][1] = "painted")
        /\ (CountOf(log, "paintFailed") > 0) =>
            /\ pc = "done"
            /\ outcome = "rejected"
            /\ error = "render failed"
            /\ Last(log)[1] = "paintFailed"
            /\ CountOf(log, "destroy") = 0
            /\ errorLog = <<>>
            /\ container \in {"attached", "detached"}

\* the painter rejected in a capture with removeContainer true: the container
\* is still attached to the live document
C19_Witness ==
    /\ mode = "single"
    /\ removeContainer = "true"
    /\ outcome = "rejected"
    /\ CountOf(log, "paintFailed") = 1
    /\ container = "attached"

=============================================================================
